---- MODULE Spec2Model ----
(***************************************************************************)
(* A model of PI (mpi/service.py, mpi/dbapi.py, mpi/rabbit.py): the record *)
(* cache kept in an in-memory SQLite table, the start/stop message         *)
(* callback, and the manifest cycle run by the consume loop's timer.       *)
(*                                                                         *)
(* Time is counted in whole seconds.  Every time.time(),                   *)
(* datetime.now() and SQLite 'now' in the code is a separate read of the   *)
(* clock: inside one handler the clock may advance between two reads (by   *)
(* at most MaxDrift in total), and it advances by Tick while the consume   *)
(* loop waits in drain_events.                                             *)
(***************************************************************************)
EXTENDS Integers, Sequences, FiniteSets, TLC

VARIABLES
    now,      \* the clock
    pc,       \* where Pi.run is: "constructed", "consuming", "stopped"
    conf,     \* the configuration Pi.__init__ was given
    table,    \* the rows of table `record`
    timers,   \* Rabbit.timers: name -> [interval, last_run]
    transport,\* the broker connection drain_events waits on: "open", "closed"
    last      \* what the last step did (observation only, never read by the program)

vars == <<now, pc, conf, table, timers, transport, last>>

(***************************************************************************)
(* Bounds                                                                  *)
(***************************************************************************)
NumPhones == 3
MaxTime == 1
MaxDrift == 1

PhoneNames == <<"1111", "2222", "3333", "4444", "5555">>
Phones == {PhoneNames[i] : i \in 1..NumPhones}

ManifestSizes == {1, 2}
ActiveTimes == {1}
CooldownTimes == {1}
RefreshTimes == {0, 1}

(***************************************************************************)
(* Program constants                                                       *)
(***************************************************************************)
START == "start"
STOP == "stop"
TIMER == "pi_manifest"

\* a NULL column (cooldown_expiry INTEGER, tasked_time INTEGER are nullable)
NULL == -1

(***************************************************************************)
(* dbapi.py: the queries, over the set of rows of the table                *)
(***************************************************************************)
\* the PRIMARY KEY constraint of CREATE TABLE record
PrimaryKeyViolated(rows, phone) == \E r \in rows : r.phone = phone

\* (mutant) the row is never found
select_record_miss(rows, phone) == {}

\* fetchone() of the SELECT ... WHERE phone=:phone: the rows found ({}: None)
select_record(rows, phone) == {r \in rows : r.phone = phone}

\* INSERT INTO record: date_created and last_active are two clock reads;
\* cooldown_expiry and tasked_time are not given and stay NULL.
insert_record(rows, phone, ip_addr, region, guid, desc, t1, t2) ==
    IF PrimaryKeyViolated(rows, phone)
    THEN [raised |-> TRUE, rows |-> rows]
    ELSE [raised |-> FALSE,
          rows |-> rows \cup {[phone |-> phone, ip_addr |-> ip_addr,
                               region |-> region, guid |-> guid,
                               description |-> desc,
                               date_created |-> t1, last_active |-> t2,
                               cooldown_expiry |-> NULL, tasked_time |-> NULL]}]

\* DELETE FROM record WHERE cooldown_expiry <= :now   (NULL <= x is not true)
delete_finished_cooldown(rows, t) ==
    {r \in rows : ~(r.cooldown_expiry # NULL /\ r.cooldown_expiry <= t)}

\* (mutant) a row whose window closes right now is kept
delete_expired_records_strict(rows, active_time, t) ==
    {r \in rows : ~(r.cooldown_expiry = NULL /\ r.last_active + active_time < t)}

\* DELETE FROM record WHERE cooldown_expiry IS NULL AND last_active + :active_time <= :now
delete_expired_records(rows, active_time, t) ==
    {r \in rows : ~(r.cooldown_expiry = NULL /\ r.last_active + active_time <= t)}

\* (mutants) the refreshed row added beside the old one; date_created refreshed too
update_active_time_dup(rows, phone, t) ==
    rows \cup {[r EXCEPT !.last_active = t] : r \in {x \in rows : x.phone = phone}}

update_active_time_recreate(rows, phone, t) ==
    {IF r.phone = phone THEN [r EXCEPT !.last_active = t, !.date_created = t] ELSE r
        : r \in rows}

\* UPDATE record SET last_active=:last_active WHERE phone=:phone
update_active_time(rows, phone, t) ==
    {IF r.phone = phone THEN [r EXCEPT !.last_active = t] ELSE r : r \in rows}

\* (mutants) the cooldown test dropped; the cooldown test inverted
delete_record_any(rows, phone) ==
    [rows |-> {r \in rows : r.phone # phone},
     rowcount |-> Cardinality({r \in rows : r.phone = phone})]

delete_record_inverted(rows, phone) ==
    [rows |-> {r \in rows : ~(r.phone = phone /\ r.cooldown_expiry # NULL)},
     rowcount |-> Cardinality({r \in rows : r.phone = phone /\ r.cooldown_expiry # NULL})]

\* DELETE FROM record WHERE phone=:phone AND cooldown_expiry IS NULL; returns rowcount
delete_record(rows, phone) ==
    [rows |-> {r \in rows : ~(r.phone = phone /\ r.cooldown_expiry = NULL)},
     rowcount |-> Cardinality({r \in rows : r.phone = phone /\ r.cooldown_expiry = NULL})]

\* (mutant) the cooldown test dropped from the WHERE clause
ManifestRowsAnyCooldown(rows, active_time, t) ==
    {r \in rows : r.last_active + active_time >= t}

\* the WHERE clause of select_manifest_records
ManifestRows(rows, active_time, t) ==
    {r \in rows : r.cooldown_expiry = NULL /\ r.last_active + active_time >= t}

\* (mutant) ORDER BY date_created, oldest first
OrderByDateCreatedAsc(S) ==
    {s \in [1..Cardinality(S) -> S] :
        /\ \A i, j \in 1..Cardinality(S) : i # j => s[i] # s[j]
        /\ \A i, j \in 1..Cardinality(S) :
              i < j => s[i].date_created <= s[j].date_created}

\* ORDER BY date_created DESC: rows with equal date_created come in an order
\* SQL leaves open, so every order that respects date_created is a result.
OrderByDateCreatedDesc(S) ==
    {s \in [1..Cardinality(S) -> S] :
        /\ \A i, j \in 1..Cardinality(S) : i # j => s[i] # s[j]
        /\ \A i, j \in 1..Cardinality(S) :
              i < j => s[i].date_created >= s[j].date_created}

\* (mutant) no ORDER BY: the eligible rows in any order
select_manifest_records_unordered(rows, active_time, t) ==
    LET S == ManifestRows(rows, active_time, t)
    IN {s \in [1..Cardinality(S) -> S] :
          \A i, j \in 1..Cardinality(S) : i # j => s[i] # s[j]}

\* fetchall() of select_manifest_records: the possible result lists
select_manifest_records(rows, active_time, t) ==
    OrderByDateCreatedDesc(ManifestRows(rows, active_time, t))

\* (mutant) the WHERE clause dropped: every row is marked
update_to_tasked_all(rows, records, t) ==
    {[r EXCEPT !.tasked_time = t] : r \in rows}

\* UPDATE record SET tasked_time = strftime('%s','now') WHERE phone = :phone, per record
update_to_tasked(rows, records, t) ==
    {IF \E i \in 1..Len(records) : records[i].phone = r.phone
     THEN [r EXCEPT !.tasked_time = t] ELSE r : r \in rows}

\* (mutants) nobody is sent to cooldown; a row already in cooldown keeps its expiry
update_to_cooldown_none(rows, cooldown_time, t) == rows

update_to_cooldown_once(rows, cooldown_time, t) ==
    {IF r.tasked_time # NULL /\ r.cooldown_expiry = NULL
     THEN [r EXCEPT !.cooldown_expiry = t + cooldown_time] ELSE r : r \in rows}

\* UPDATE record SET cooldown_expiry = :now + cooldown_time WHERE tasked_time IS NOT NULL
update_to_cooldown(rows, cooldown_time, t) ==
    {IF r.tasked_time # NULL
     THEN [r EXCEPT !.cooldown_expiry = t + cooldown_time] ELSE r : r \in rows}

\* (mutants) nobody is released; the released rows lose their tasked_time too
update_free_cooldown_none(rows, active_time, t) == rows

update_free_cooldown_untask(rows, active_time, t) ==
    {IF r.cooldown_expiry # NULL /\ r.last_active + active_time > t
     THEN [r EXCEPT !.cooldown_expiry = NULL, !.tasked_time = NULL] ELSE r : r \in rows}

\* (mutant) the rows whose window closes right now are released too
update_free_cooldown_inclusive(rows, active_time, t) ==
    {IF r.cooldown_expiry # NULL /\ r.last_active + active_time >= t
     THEN [r EXCEPT !.cooldown_expiry = NULL] ELSE r : r \in rows}

\* UPDATE record SET cooldown_expiry = NULL
\*   WHERE cooldown_expiry IS NOT NULL AND last_active + :active_time > :now
update_free_cooldown(rows, active_time, t) ==
    {IF r.cooldown_expiry # NULL /\ r.last_active + active_time > t
     THEN [r EXCEPT !.cooldown_expiry = NULL] ELSE r : r \in rows}

(***************************************************************************)
(* service.py: the handlers, each giving the set of its possible outcomes  *)
(* when entered at clock time t (one outcome per way the clock may advance *)
(* between its reads, and per order a select may return).                  *)
(***************************************************************************)
\* Pi.on_start: insert when select_record finds nothing, else refresh
\* last_active.  insert_record reads the clock twice.
on_start(rows, phone, ip_addr, region, desc, guid, t) ==
    IF select_record(rows, phone) = {}
    THEN {LET ins == insert_record(rows, phone, ip_addr, region, guid, desc, t, t2)
          IN [rows |-> ins.rows, raised |-> ins.raised, store_op |-> "insert",
              logs |-> <<"info">>, end |-> t2]
            : t2 \in t..(t + MaxDrift)}
    ELSE {[rows |-> update_active_time(rows, phone, t), raised |-> FALSE,
           store_op |-> "touch", logs |-> <<"info">>, end |-> t]}

\* Pi.on_stop: delete unless in cooldown; a warning when nothing was deleted
on_stop(rows, phone) ==
    LET del == delete_record(rows, phone)
    IN [rows |-> del.rows, deleted |-> del.rowcount,
        logs |-> IF del.rowcount # 1 THEN <<"warning">> ELSE <<"info">>]

\* (mutant) region is not looked up
RequiredHeadersNoRegion == {"phone", "ip_addr", "description", "guid"}

\* the headers message_callback reads inside its try block (a KeyError otherwise)
RequiredHeaders == {"phone", "ip_addr", "description", "region", "guid"}

\* (mutant) no routing key is turned away
RoutingKeysAny == {START, STOP, "bad"}

\* the routing keys message_callback goes on with
RoutingKeys == {START, STOP}

\* headers[h], once the KeyError test has passed
Lookup(headers, h) == IF h \in DOMAIN headers THEN headers[h] ELSE ""

\* (mutant) an empty description is passed on as it is
DescAsGiven(description) == description

\* headers['description'] or 'UNKNOWN'
DescOrUnknown(description) == IF description = "" THEN "UNKNOWN" ELSE description

\* (mutant) a message that is turned away is only logged, not rejected
SettledUnanswered(rows, channel, logs, t) ==
    [rows |-> rows, channel |-> << >>, handler |-> "none", store_op |-> "none",
     desc |-> "", deleted |-> 0, logs |-> logs, raised |-> FALSE, end |-> t]

\* what a call of message_callback that touched nothing looks like (desc is the
\* value of its local variable desc, "" when it was never assigned)
Settled(rows, channel, logs, t) ==
    [rows |-> rows, channel |-> channel, handler |-> "none", store_op |-> "none",
     desc |-> "", deleted |-> 0, logs |-> logs, raised |-> FALSE, end |-> t]

\* Pi.message_callback
message_callback(rows, message, t) ==
    LET headers == message.headers
        routing_key == message.routing_key
    IN  IF routing_key \notin RoutingKeys
        THEN {Settled(rows, <<"reject">>, <<"error">>, t)}
        ELSE IF ~(RequiredHeaders \subseteq DOMAIN headers)
        THEN {Settled(rows, <<"reject">>, <<"error">>, t)}
        ELSE
          LET phone == Lookup(headers, "phone")
              ip_addr == Lookup(headers, "ip_addr")
              desc == DescOrUnknown(Lookup(headers, "description"))
              region == Lookup(headers, "region")
              guid == Lookup(headers, "guid")
          IN  IF routing_key = START
              THEN {[rows |-> r.rows,
                     channel |-> IF r.raised THEN << >> ELSE <<"ack">>,
                     handler |-> "on_start", store_op |-> r.store_op,
                     desc |-> desc, deleted |-> 0, logs |-> r.logs, raised |-> r.raised,
                     end |-> r.end]
                       : r \in on_start(rows, phone, ip_addr, desc, region, guid, t)}
              ELSE IF routing_key = STOP
              THEN LET r == on_stop(rows, phone)
                   IN {[rows |-> r.rows, channel |-> <<"ack">>,
                        handler |-> "on_stop", store_op |-> "delete",
                        desc |-> desc, deleted |-> r.deleted, logs |-> r.logs, raised |-> FALSE,
                        end |-> t]}
              ELSE {Settled(rows, << >>, << >>, t)}

\* (mutant) the rows whose cooldown has finished are kept
prune_cache_expired_only(rows, c, t1, t2) ==
    delete_expired_records(rows, c.active_time, t1)

\* (mutant) the expired rows are kept
prune_cache_finished_only(rows, c, t1, t2) ==
    delete_finished_cooldown(rows, t2)

\* Pi._prune_cache
prune_cache(rows, c, t1, t2) ==
    delete_finished_cooldown(delete_expired_records(rows, c.active_time, t1), t2)

\* (mutant) cooldown is enforced as soon as the cache is full
send_to_cooldown_eager(rows, c, t1, t2, t3, t4) ==
    LET e1 == ManifestRows(rows, c.active_time, t1)
        cooled == Cardinality(e1) >= c.manifest_size
        r1 == IF cooled THEN update_to_cooldown(rows, c.cooldown_time, t2) ELSE rows
        e2 == ManifestRows(r1, c.active_time, t3)
        freed == Cardinality(e2) < c.manifest_size
        r2 == IF freed THEN update_free_cooldown(r1, c.active_time, t4) ELSE r1
    IN [rows |-> r2, e1 |-> e1, cooled |-> cooled, e2 |-> e2, freed |-> freed]

\* Pi._send_to_cooldown: two reads of the eligible rows, each followed by its update
send_to_cooldown(rows, c, t1, t2, t3, t4) ==
    LET e1 == ManifestRows(rows, c.active_time, t1)
        cooled == Cardinality(e1) > c.manifest_size
        r1 == IF cooled THEN update_to_cooldown(rows, c.cooldown_time, t2) ELSE rows
        e2 == ManifestRows(r1, c.active_time, t3)
        freed == Cardinality(e2) < c.manifest_size
        r2 == IF freed THEN update_free_cooldown(r1, c.active_time, t4) ELSE r1
    IN [rows |-> r2, e1 |-> e1, cooled |-> cooled, e2 |-> e2, freed |-> freed]

\* (mutant) the list is never cut
TrimNone(records, manifest_size) == records

\* generate_manifest's trim: records[:manifest_size] when there are too many
Trim(records, manifest_size) ==
    IF Len(records) > manifest_size
    THEN SubSeq(records, 1, manifest_size)
    ELSE records

\* Pi.generate_manifest, its eight clock reads being T[1..8]: one outcome per
\* order the final select may return.
generate_manifest(rows, c, T) ==
    LET pruned == prune_cache(rows, c, T[1], T[2])
        bal == send_to_cooldown(pruned, c, T[3], T[4], T[5], T[6])
    IN {[rows |-> update_to_tasked(bal.rows, Trim(records, c.manifest_size), T[8]),
         manifest |-> Trim(records, c.manifest_size),
         records |-> records,
         startEligible |-> Cardinality(ManifestRows(rows, c.active_time, T[1])),
         e1 |-> Cardinality(bal.e1), cooled |-> bal.cooled,
         e2 |-> Cardinality(bal.e2), freed |-> bal.freed,
         selRows |-> bal.rows, selNow |-> T[7], startNow |-> T[1]]
        : records \in select_manifest_records(bal.rows, c.active_time, T[7])}

\* (mutant) nothing is published when the manifest is empty
publish_manifest_unless_empty(rows, c, T) ==
    {[rows |-> g.rows, cycle |-> g,
      published |-> IF Len(g.manifest) = 0 THEN << >>
                    ELSE <<[source |-> "mpi", records |-> Len(g.manifest),
                            body |-> g.manifest]>>]
        : g \in generate_manifest(rows, c, T)}

\* Pi.publish_manifest: generate, then publish one message whose `records`
\* header is len(manifest) and whose body is the dumped list
publish_manifest(rows, c, T) ==
    {[rows |-> g.rows, cycle |-> g,
      published |-> <<[source |-> "mpi", records |-> Len(g.manifest),
                       body |-> g.manifest]>>]
        : g \in generate_manifest(rows, c, T)}

(***************************************************************************)
(* The clock reads of one handler                                          *)
(***************************************************************************)
\* where, among n reads, each second of drift falls: before read p (2..n),
\* or not inside the handler at all (n+1)
Positions(n) == [1..MaxDrift -> 2..(n + 1)]

\* the n reads of a handler entered at time t, the drift falling as pos says
Reads(t, pos, n) ==
    [i \in 1..n |-> t + Cardinality({d \in DOMAIN pos : pos[d] <= i})]

(***************************************************************************)
(* Observations                                                            *)
(***************************************************************************)
NoMessage == [routing_key |-> "", headers |-> << >>]

NoCycle == {}

Observed(op) ==
    [op |-> op, msg |-> NoMessage, channel |-> << >>, handler |-> "none",
     store_op |-> "none", desc |-> "", deleted |-> 0, logs |-> << >>, raised |-> FALSE,
     cycle |-> NoCycle, published |-> << >>, selected |-> << >>,
     previous |-> << >>, cooling |-> {}, ran |-> << >>, firedAt |-> << >>,
     statement |-> 0, rolledBack |-> FALSE, ranDeleted |-> {}]

(***************************************************************************)
(* The messages the broker may deliver                                     *)
(***************************************************************************)
HeaderNames == {"phone", "ip_addr", "description", "region", "guid"}

FullHeaders(phone, desc) ==
    [h \in HeaderNames |->
        CASE h = "phone" -> phone
          [] h = "ip_addr" -> "127.0.0.1"
          [] h = "description" -> desc
          [] h = "region" -> "hogwarts"
          [] h = "guid" -> "guid-" \o phone]

Without(headers, h) == [k \in (DOMAIN headers) \ {h} |-> headers[k]]

Messages ==
    \* well-formed start and stop messages
    {[routing_key |-> k, headers |-> FullHeaders(p, "wizard")]
        : k \in {START, STOP}, p \in Phones}
    \cup
    {[routing_key |-> "bad", headers |-> FullHeaders(PhoneNames[1], "wizard")]}
    \cup
    \* an empty description, a missing header
    {[routing_key |-> k, headers |-> FullHeaders(PhoneNames[1], "")]
        : k \in {START}}
    \cup
    {[routing_key |-> START,
      headers |-> Without(FullHeaders(PhoneNames[1], "wizard"), "description")]}
    \cup
    {[routing_key |-> k, headers |-> Without(FullHeaders(PhoneNames[1], "wizard"), h)]
        : k \in {START, STOP}, h \in {"phone", "ip_addr", "region", "guid"}}

(***************************************************************************)
(* The state machine                                                       *)
(***************************************************************************)
Init ==
    /\ now = 0
    /\ pc = "constructed"
    /\ conf \in [manifest_size : ManifestSizes, active_time : ActiveTimes,
                 cooldown_time : CooldownTimes, refresh_time : RefreshTimes]
    /\ table = {}
    /\ timers = << >>
    /\ transport = "open"
    /\ last = Observed("init")

\* Rabbit.add_timer: a Timer whose last_run is the time it was made
add_timer(ts, name, interval, t) ==
    [n \in (DOMAIN ts) \cup {name} |->
        IF n = name THEN [interval |-> interval, last_run |-> t] ELSE ts[n]]

\* Rabbit.delete_timer
delete_timer(ts, name) == [n \in (DOMAIN ts) \ {name} |-> ts[n]]

\* Pi.run up to the consume loop: create the table, register the manifest timer
Run ==
    /\ pc = "constructed"
    /\ pc' = "consuming"
    /\ table' = {}
    /\ timers' = add_timer(timers, TIMER, conf.refresh_time, now)
    /\ last' = Observed("run")
    /\ UNCHANGED <<now, conf, transport>>

\* one second passes while drain_events waits
Tick ==
    /\ pc = "consuming"
    /\ now < MaxTime
    /\ now' = now + 1
    /\ last' = Observed("tick")
    /\ UNCHANGED <<pc, conf, table, timers, transport>>

\* Pi.stop, run by the finally of Pi.run
StopTimers(ts) == delete_timer(ts, TIMER)

\* drain_events delivers a message: message_callback runs to its end.  An error
\* it raises is no OSError: it leaves consume and run, whose finally stops PI;
\* the `with self.conn` block it left rolls its statements back.
Deliver(m) ==
    /\ pc = "consuming"
    /\ transport = "open"
    /\ \E r \in message_callback(table, m, now) :
            /\ r.end <= MaxTime
            /\ now' = r.end
            /\ table' = IF r.raised THEN table ELSE r.rows
            /\ pc' = IF r.raised THEN "stopped" ELSE pc
            /\ timers' = IF r.raised THEN StopTimers(timers) ELSE timers
            /\ last' = [Observed("deliver") EXCEPT
                          !.msg = m, !.channel = r.channel, !.handler = r.handler,
                          !.store_op = r.store_op, !.desc = r.desc,
                          !.deleted = r.deleted,
                          !.logs = r.logs, !.raised = r.raised]
    /\ UNCHANGED <<conf, transport>>

\* what the step before published, when it was a cycle whose clock reads all
\* fell in the present second (observation only)
PublishedJustBefore ==
    IF \E c \in last.cycle : c.startNow = now THEN last.published ELSE << >>

\* (mutant) the interval is left out of the test
TimerDueAtOnce(timer, t) == timer.last_run <= t

\* Timer.run's test: timer_due = last_run + interval; timer_due <= now
TimerDue(timer, t) == timer.last_run + timer.interval <= t

\* rabbit.publish on a closed transport may raise: generate_manifest's
\* statements are committed, nothing is published, and the error leaves
\* check_timers, consume and run, whose finally stops PI
PublishFails(p, t) ==
    /\ transport = "closed"
    /\ table' = p.rows
    /\ timers' = StopTimers(timers)
    /\ now' = t
    /\ pc' = "stopped"
    /\ last' = [Observed("timeout") EXCEPT !.cycle = {p.cycle}, !.raised = TRUE]

\* drain_events raises an OSError (socket.timeout after the bounded wait, or
\* any other OSError at once): check_timers runs every timer; the manifest
\* timer, when due, runs publish_manifest and then takes the time as its
\* last_run.  Reads: 1 the due test, 2..9 generate_manifest, 10 last_run.
Timeout ==
    /\ pc = "consuming"
    /\ IF TIMER \in DOMAIN timers /\ TimerDue(timers[TIMER], now)
       THEN \E pos \in Positions(10) :
              LET T == Reads(now, pos, 10)
              IN /\ T[10] <= MaxTime
                 /\ \E p \in publish_manifest(table, conf, [i \in 1..8 |-> T[i + 1]]) :
                      \/ /\ table' = p.rows
                         /\ timers' = [timers EXCEPT ![TIMER].last_run = T[10]]
                         /\ now' = T[10]
                         /\ pc' = pc
                         /\ last' = [Observed("timeout") EXCEPT
                                       !.cycle = {p.cycle}, !.published = p.published,
                                       !.previous = PublishedJustBefore]
                      \/ PublishFails(p, T[9])
       ELSE /\ last' = Observed("timeout")
            /\ UNCHANGED <<now, pc, table, timers>>
    /\ UNCHANGED <<conf, transport>>

Next ==
    \/ Run
    \/ Tick
    \/ \E m \in Messages : Deliver(m)
    \/ Timeout

Spec == Init /\ [][Next]_vars

\* one turn of consume's `while True`: drain_events hands a message to the
\* callback, or raises an OSError and the timers are checked
Loop ==
    \/ \E m \in Messages : Deliver(m)
    \/ Timeout

\* The loop never stops turning of itself, and the clock goes on (up to
\* MaxTime); whether a turn is a delivery or a timeout is the broker's choice.
SpecLive == Init /\ [][Next]_vars /\ WF_vars(Run) /\ WF_vars(Tick) /\ WF_vars(Loop)

(***************************************************************************)
(* PI configured with active_time = 0                                      *)
(***************************************************************************)
ZeroActiveTimes == {0}

InitZero ==
    /\ now = 0
    /\ pc = "constructed"
    /\ conf \in [manifest_size : ManifestSizes, active_time : ZeroActiveTimes,
                 cooldown_time : CooldownTimes, refresh_time : RefreshTimes]
    /\ table = {}
    /\ timers = << >>
    /\ transport = "open"
    /\ last = Observed("init")

SpecZero == InitZero /\ [][Next]_vars

(***************************************************************************)
(* A statement of the store fails during a cycle                           *)
(***************************************************************************)
\* the statements of generate_manifest in the order they are executed
CycleStatements ==
    <<"delete_expired_records", "delete_finished_cooldown",
      "select_manifest_records", "update_to_cooldown",
      "select_manifest_records", "update_free_cooldown",
      "select_manifest_records", "update_to_tasked">>

\* the `with self.conn` block each statement is in: _prune_cache,
\* _send_to_cooldown, and the block of generate_manifest itself
BlockOf(k) == IF k <= 2 THEN 1 ELSE IF k <= 6 THEN 2 ELSE 3

\* The connection when statement k of the cycle raises, the clock reads of
\* the statements being T[1..8].
\* whether the cycle gets to the statement
Reached(rows, c, T, k) ==
    CASE k = 4 -> send_to_cooldown(prune_cache(rows, c, T[1], T[2]), c,
                                   T[3], T[4], T[5], T[6]).cooled
      [] k = 6 -> send_to_cooldown(prune_cache(rows, c, T[1], T[2]), c,
                                   T[3], T[4], T[5], T[6]).freed
      [] OTHER -> TRUE

\* the table as the blocks left before statement k committed it
CommittedBefore(rows, c, T, k) ==
    CASE BlockOf(k) = 1 -> rows
      [] BlockOf(k) = 2 -> prune_cache(rows, c, T[1], T[2])
      [] OTHER -> send_to_cooldown(prune_cache(rows, c, T[1], T[2]), c,
                                   T[3], T[4], T[5], T[6]).rows

\* the table with every statement before statement k executed
AppliedBefore(rows, c, T, k) ==
    CASE k = 2 -> delete_expired_records(rows, c.active_time, T[1])
      [] k \in {5, 6} ->
           LET pruned == prune_cache(rows, c, T[1], T[2])
           IN IF Cardinality(ManifestRows(pruned, c.active_time, T[3])) > c.manifest_size
              THEN update_to_cooldown(pruned, c.cooldown_time, T[4])
              ELSE pruned
      [] OTHER -> CommittedBefore(rows, c, T, k)

\* (mutant) the block that is left by the error keeps what its statements did
KeepApplied(rows, c, T, k) == AppliedBefore(rows, c, T, k)

\* `with self.conn` left by an error: sqlite3 rolls the open transaction
\* back, which undoes the statements of this block and of no block before it
Rollback(rows, c, T, k) == CommittedBefore(rows, c, T, k)

\* The manifest timer is due and statement k of the cycle raises an
\* sqlite3.Error: it is no OSError, so it leaves publish_manifest before
\* rabbit.publish, then check_timers, consume and run, whose finally stops PI.
\* Reads: 1 the due test, 2..k+1 the statements up to the failing one; time
\* that passes later does not pass inside the handler (position 11).
CycleFails(k) ==
    /\ pc = "consuming"
    /\ TIMER \in DOMAIN timers /\ TimerDue(timers[TIMER], now)
    /\ \E pos \in Positions(10) :
         LET T == Reads(now, pos, 10)
             G == [i \in 1..8 |-> T[i + 1]]
         IN /\ \A d \in DOMAIN pos : pos[d] <= k + 1 \/ pos[d] = 11
            /\ G[k] <= MaxTime
            /\ Reached(table, conf, G, k)
            /\ table' = Rollback(table, conf, G, k)
            /\ now' = G[k]
            /\ last' = [Observed("timeout") EXCEPT
                          !.raised = TRUE, !.statement = k,
                          !.store_op = CycleStatements[k],
                          !.deleted = IF BlockOf(k) = 1 THEN 0
                                      ELSE Cardinality(table)
                                           - Cardinality(prune_cache(table, conf, G[1], G[2])),
                          !.rolledBack = (AppliedBefore(table, conf, G, k)
                                          # CommittedBefore(table, conf, G, k))]
    /\ timers' = StopTimers(timers)
    /\ pc' = "stopped"
    /\ UNCHANGED <<conf, transport>>

NextFail ==
    \/ Next
    \/ \E k \in 1..Len(CycleStatements) : CycleFails(k)

SpecFail == Init /\ [][NextFail]_vars

(***************************************************************************)
(* The transport closed from outside                                       *)
(***************************************************************************)
\* the broker connection is closed by the peer or the network
Close ==
    /\ pc = "consuming"
    /\ transport = "open"
    /\ transport' = "closed"
    /\ last' = Observed("close")
    /\ UNCHANGED <<now, pc, conf, table, timers>>

\* drain_events on the closed transport raises an error that is no OSError:
\* it leaves consume and run, whose finally stops PI.  (When what it raises is
\* an OSError, consume takes it for a timeout: that step is Timeout.)
Broken ==
    /\ pc = "consuming"
    /\ transport = "closed"
    /\ pc' = "stopped"
    /\ timers' = StopTimers(timers)
    /\ last' = [Observed("broken") EXCEPT !.raised = TRUE]
    /\ UNCHANGED <<now, conf, table, transport>>

NextClose ==
    \/ Next
    \/ Close
    \/ Broken

SpecClose == Init /\ [][NextClose]_vars

(***************************************************************************)
(* The consume loop with a clock that never stops.  The program only ever   *)
(* compares a stored time with a time just read, and date_created with      *)
(* date_created, so its behaviour does not change when every time is        *)
(* counted from the present: `now` stays at Epoch and, when d seconds have   *)
(* passed, every stored time goes down by d.  A time that has reached 0 is  *)
(* past for every comparison still to come (Epoch > active_time,            *)
(* refresh_time) and stays 0; the date_created values that have reached 0   *)
(* or less keep their order and their ties (0, -1, -2, ...); tasked_time,   *)
(* which is only ever tested for NULL, is kept as 0 when it is set.  Every  *)
(* handler here runs within the second (all its clock reads return the same  *)
(* time): the clock moves between the handlers only.  The steps are not     *)
(* observed: `last` stays as Run left it.                                   *)
(***************************************************************************)
Epoch == 2

DecayManifestSizes == {1}
DecayActiveTimes == {1}
DecayCooldownTimes == {2}
DecayRefreshTimes == {1}

Max0(x) == IF x > 0 THEN x ELSE 0

\* a nullable time, d seconds later
Later(v, d) == IF v = NULL THEN NULL ELSE Max0(v - d)

\* the rows, d seconds later
Aged(rows, d) ==
    LET old == {r.date_created - d : r \in {x \in rows : x.date_created - d <= 0}}
        Ranked(v) == IF v > 0 THEN v
                     ELSE 0 - Cardinality({o \in old : o > v})
    IN {[r EXCEPT !.date_created = Ranked(r.date_created - d),
                  !.last_active = Max0(r.last_active - d),
                  !.cooldown_expiry = Later(r.cooldown_expiry, d),
                  !.tasked_time = IF r.tasked_time = NULL THEN NULL ELSE 0]
        : r \in rows}

\* the timers, d seconds later
AgedTimers(ts, d) ==
    [n \in DOMAIN ts |-> [ts[n] EXCEPT !.last_run = Max0(ts[n].last_run - d)]]

\* well-formed start and stop messages
DecayMessages ==
    {[routing_key |-> k, headers |-> FullHeaders(ph, "wizard")]
        : k \in {START, STOP}, ph \in Phones}

InitDecay ==
    /\ now = Epoch
    /\ pc = "constructed"
    /\ conf \in [manifest_size : DecayManifestSizes, active_time : DecayActiveTimes,
                 cooldown_time : DecayCooldownTimes, refresh_time : DecayRefreshTimes]
    /\ table = {}
    /\ timers = << >>
    /\ transport = "open"
    /\ last = Observed("init")

\* one second passes while drain_events waits
TickDecay ==
    /\ pc = "consuming"
    /\ table' = Aged(table, 1)
    /\ timers' = AgedTimers(timers, 1)
    /\ UNCHANGED <<now, pc, conf, transport, last>>

\* drain_events delivers a message, handled within the second (see Deliver)
DeliverDecay(m) ==
    /\ pc = "consuming"
    /\ transport = "open"
    /\ \E r \in message_callback(table, m, now) :
            /\ r.end = now
            /\ table' = IF r.raised THEN table ELSE Aged(r.rows, 0)
            /\ pc' = IF r.raised THEN "stopped" ELSE pc
            /\ timers' = IF r.raised THEN StopTimers(timers) ELSE timers
    /\ UNCHANGED <<now, conf, transport, last>>

\* drain_events raises an OSError and the manifest timer is due: the cycle,
\* run within the second (see Timeout)
CycleDecay ==
    /\ pc = "consuming"
    /\ TIMER \in DOMAIN timers /\ TimerDue(timers[TIMER], now)
    /\ \E p \in publish_manifest(table, conf, [i \in 1..8 |-> now]) :
          /\ table' = Aged(p.rows, 0)
          /\ timers' = [timers EXCEPT ![TIMER].last_run = now]
    /\ UNCHANGED <<now, pc, conf, transport, last>>

\* drain_events raises an OSError and the manifest timer is not due
IdleDecay ==
    /\ pc = "consuming"
    /\ ~(TIMER \in DOMAIN timers /\ TimerDue(timers[TIMER], now))
    /\ UNCHANGED vars

NextDecay ==
    \/ Run
    \/ TickDecay
    \/ \E m \in DecayMessages : DeliverDecay(m)
    \/ CycleDecay
    \/ IdleDecay

\* Time advances and the manifest cycle keeps firing: the clock goes on and
\* the cycle, whenever it stays due, is run.
SpecDecay ==
    /\ InitDecay /\ [][NextDecay]_vars
    /\ WF_vars(Run) /\ WF_vars(TickDecay) /\ WF_vars(CycleDecay)

(***************************************************************************)
(* A fixed set of phones that all stay active, on the clock that never      *)
(* stops: no stop message is sent, and a second passes only when every      *)
(* phone has had a start message within it, so that with active_time = 2    *)
(* no activity window ever closes.                                          *)
(***************************************************************************)
NumActive == 4
ActivePhones == {PhoneNames[i] : i \in 1..NumActive}

ActiveManifestSizes == {1}
ActiveActiveTimes == {2}
ActiveCooldownTimes == {1}
ActiveRefreshTimes == {1}

InitActive ==
    /\ now = Epoch
    /\ pc = "constructed"
    /\ conf \in [manifest_size : ActiveManifestSizes, active_time : ActiveActiveTimes,
                 cooldown_time : ActiveCooldownTimes, refresh_time : ActiveRefreshTimes]
    /\ table = {}
    /\ timers = << >>
    /\ transport = "open"
    /\ last = Observed("init")

\* a start message for the phone is delivered
StartActive(ph) ==
    /\ ph \in ActivePhones
    /\ DeliverDecay([routing_key |-> START, headers |-> FullHeaders(ph, "wizard")])

\* every phone has a row that a start message of this second touched
AllStarted == \A ph \in ActivePhones : \E r \in table : r.phone = ph /\ r.last_active = now

\* one second passes while drain_events waits, every phone having been started
TickActive ==
    /\ AllStarted
    /\ TickDecay

NextActive ==
    \/ Run
    \/ \E ph \in ActivePhones : StartActive(ph)
    \/ TickActive
    \/ CycleDecay

\* Each phone keeps being started, time advances, and the manifest cycle,
\* whenever it stays due, is run.
SpecActive ==
    /\ InitActive /\ [][NextActive]_vars
    /\ WF_vars(Run) /\ WF_vars(TickActive) /\ WF_vars(CycleDecay)
    /\ \A ph \in ActivePhones : WF_vars(StartActive(ph))

(***************************************************************************)
(* The store on its own (tests/test_queries.py, test_record_ordering): rows *)
(* are inserted one after another, phone after phone in the order of        *)
(* PhoneNames, the clock advancing or not between two reads, and the        *)
(* eligible rows are selected.                                              *)
(***************************************************************************)
PhoneIndex(phone) == CHOOSE i \in 1..Len(PhoneNames) : PhoneNames[i] = phone

\* the conn fixture: a connection whose table has been created
InitOrder ==
    /\ now = 0
    /\ pc = "store"
    /\ conf \in [manifest_size : ManifestSizes, active_time : ActiveTimes,
                 cooldown_time : CooldownTimes, refresh_time : RefreshTimes]
    /\ table = {}
    /\ timers = << >>
    /\ transport = "open"
    /\ last = Observed("init")

\* dbapi.insert_record for the next phone
InsertNext ==
    /\ pc = "store"
    /\ Cardinality(table) < NumPhones
    /\ \E t2 \in now..(now + MaxDrift) :
         LET phone == PhoneNames[Cardinality(table) + 1]
             ins == insert_record(table, phone, "127.0.0.1", "hogwarts",
                                  "guid-" \o phone, "wizard", now, t2)
         IN /\ t2 <= MaxTime
            /\ ~ins.raised
            /\ table' = ins.rows
            /\ now' = t2
            /\ last' = [Observed("insert") EXCEPT !.store_op = "insert"]
    /\ UNCHANGED <<pc, conf, timers, transport>>

\* time passes between two calls
Elapse ==
    /\ pc = "store"
    /\ now < MaxTime
    /\ now' = now + 1
    /\ last' = Observed("elapse")
    /\ UNCHANGED <<pc, conf, table, timers, transport>>

\* dbapi.select_manifest_records
Select ==
    /\ pc = "store"
    /\ \E records \in select_manifest_records(table, conf.active_time, now) :
         last' = [Observed("select") EXCEPT !.selected = records]
    /\ UNCHANGED <<now, pc, conf, table, timers, transport>>

NextOrder ==
    \/ InsertNext
    \/ Elapse
    \/ Select

SpecOrder == InitOrder /\ [][NextOrder]_vars

(***************************************************************************)
(* The timers of Rabbit on their own (tests/test_timers.py): timers are     *)
(* added, replaced and deleted, time passes, and check_timers is called.    *)
(* The method of a timer is any callable: all that is modelled of it is     *)
(* that the clock may advance while it runs.                                *)
(***************************************************************************)
MaxTimerTime == 4
TimerNames == {"mytimer", "myothertimer"}
TimerIntervals == {0, 1, 2}

\* the orders in which list(self.timers.items()) may give the timers of ts
TimerOrders(ts) ==
    {o \in [1..Cardinality(DOMAIN ts) -> DOMAIN ts] :
        \A i, j \in 1..Cardinality(DOMAIN ts) : i # j => o[i] # o[j]}

\* the time the method of timer n was last called, NULL if never (observation only)
FiredAt(n) == IF n \in DOMAIN last.firedAt THEN last.firedAt[n] ELSE NULL

\* Rabbit.check_timers from the i-th timer of the snapshot on: Timer.run reads
\* the clock for its test (T[2i-1]) and, when due, calls the method and reads
\* the clock again for last_run (T[2i])
RECURSIVE RunTimers(_, _, _, _)
RunTimers(ts, order, T, i) ==
    IF i > Len(order)
    THEN [timers |-> ts, ran |-> << >>]
    ELSE LET n == order[i]
             due == TimerDue(ts[n], T[2 * i - 1])
             rest == RunTimers(IF due THEN [ts EXCEPT ![n].last_run = T[2 * i]] ELSE ts,
                               order, T, i + 1)
         IN [timers |-> rest.timers,
             ran |-> (IF due
                      THEN <<[name |-> n, at |-> T[2 * i - 1], done |-> T[2 * i],
                              prev |-> FiredAt(n)]>>
                      ELSE << >>) \o rest.ran]

\* Rabbit.__init__: no timers
InitTimers ==
    /\ now = 0
    /\ pc = "timers"
    /\ conf \in [manifest_size : {1}, active_time : {1},
                 cooldown_time : {1}, refresh_time : {0}]
    /\ table = {}
    /\ timers = << >>
    /\ transport = "open"
    /\ last = Observed("init")

\* Rabbit.add_timer: a new Timer, which replaces the one of that name
AddTimer(n, interval) ==
    /\ pc = "timers"
    /\ timers' = add_timer(timers, n, interval, now)
    /\ last' = [Observed("add_timer") EXCEPT
                  !.firedAt = [m \in (DOMAIN last.firedAt) \ {n} |-> last.firedAt[m]]]
    /\ UNCHANGED <<now, pc, conf, table, transport>>

\* Rabbit.delete_timer
DeleteTimer(n) ==
    /\ pc = "timers"
    /\ timers' = delete_timer(timers, n)
    /\ last' = [Observed("delete_timer") EXCEPT
                  !.firedAt = [m \in (DOMAIN last.firedAt) \ {n} |-> last.firedAt[m]]]
    /\ UNCHANGED <<now, pc, conf, table, transport>>

\* Rabbit.check_timers
CheckTimers ==
    /\ pc = "timers"
    /\ \E order \in TimerOrders(timers), pos \in Positions(2 * Cardinality(TimerNames)) :
         LET T == Reads(now, pos, 2 * Cardinality(TimerNames))
             r == RunTimers(timers, order, T, 1)
             end == IF Len(r.ran) = 0 THEN now ELSE r.ran[Len(r.ran)].done
         IN /\ end <= MaxTimerTime
            /\ timers' = r.timers
            /\ now' = end
            /\ last' = [Observed("check_timers") EXCEPT
                          !.ran = r.ran,
                          !.firedAt =
                             [m \in (DOMAIN last.firedAt)
                                       \cup {r.ran[i].name : i \in 1..Len(r.ran)} |->
                                 IF \E i \in 1..Len(r.ran) : r.ran[i].name = m
                                 THEN (CHOOSE e \in {r.ran[i] : i \in 1..Len(r.ran)} :
                                          e.name = m).at
                                 ELSE last.firedAt[m]]]
    /\ UNCHANGED <<pc, conf, table, transport>>

\* time passes between two calls
TimersElapse ==
    /\ pc = "timers"
    /\ now < MaxTimerTime
    /\ now' = now + 1
    /\ last' = [Observed("elapse") EXCEPT !.firedAt = last.firedAt]
    /\ UNCHANGED <<pc, conf, table, timers, transport>>

NextTimers ==
    \/ \E n \in TimerNames, interval \in TimerIntervals : AddTimer(n, interval)
    \/ \E n \in TimerNames : DeleteTimer(n)
    \/ CheckTimers
    \/ TimersElapse

SpecTimers == InitTimers /\ [][NextTimers]_vars

(***************************************************************************)
(* Timers whose methods delete timers: the method of the i-th timer of the  *)
(* snapshot calls delete_timer(dels[i]) when it runs (NoTimer: it deletes   *)
(* nothing).                                                               *)
(***************************************************************************)
NoTimer == "none"

\* (mutant) check_timers walks self.timers itself: a timer that is no longer
\* registered when its turn comes is passed over
StillTracked(live, n) == n \in DOMAIN live

\* check_timers walks list(self.timers.items()), a copy made when the tick
\* begins: every Timer of the copy is run, registered or not
InSnapshot(live, n) == TRUE

\* Rabbit.check_timers from the i-th timer of the snapshot snap on, live being
\* self.timers.  Timer.run works on the Timer object of the snapshot: its test
\* reads the object's last_run, and the last_run it sets shows in self.timers
\* only while the object is still registered there.
RECURSIVE RunTimersDeleting(_, _, _, _, _, _)
RunTimersDeleting(live, snap, order, T, dels, i) ==
    IF i > Len(order)
    THEN [timers |-> live, ran |-> << >>, ranDeleted |-> {}]
    ELSE LET n == order[i]
             due == InSnapshot(live, n) /\ TimerDue(snap[n], T[2 * i - 1])
             gone == n \notin DOMAIN live
             deleted == IF due THEN delete_timer(live, dels[i]) ELSE live
             after == IF due /\ n \in DOMAIN deleted
                      THEN [deleted EXCEPT ![n].last_run = T[2 * i]]
                      ELSE deleted
             rest == RunTimersDeleting(after, snap, order, T, dels, i + 1)
         IN [timers |-> rest.timers,
             ran |-> (IF due
                      THEN <<[name |-> n, at |-> T[2 * i - 1], done |-> T[2 * i],
                              prev |-> FiredAt(n)]>>
                      ELSE << >>) \o rest.ran,
             ranDeleted |-> (IF due /\ gone THEN {n} ELSE {}) \cup rest.ranDeleted]

\* Rabbit.check_timers, the methods deleting timers
CheckTimersDeleting ==
    /\ pc = "timers"
    /\ \E order \in TimerOrders(timers), pos \in Positions(2 * Cardinality(TimerNames)),
          dels \in [1..Cardinality(DOMAIN timers) -> TimerNames \cup {NoTimer}] :
         \E r \in {RunTimersDeleting(timers, timers, order,
                                      Reads(now, pos, 2 * Cardinality(TimerNames)),
                                      dels, 1)} :
         LET end == IF Len(r.ran) = 0 THEN now ELSE r.ran[Len(r.ran)].done
         IN /\ \E i \in DOMAIN dels : dels[i] # NoTimer
            /\ end <= MaxTimerTime
            /\ timers' = r.timers
            /\ now' = end
            /\ last' = [Observed("check_timers") EXCEPT
                          !.ran = r.ran,
                          !.ranDeleted = r.ranDeleted,
                          !.firedAt =
                             [m \in ((DOMAIN last.firedAt)
                                       \cup {r.ran[i].name : i \in 1..Len(r.ran)})
                                      \cap DOMAIN r.timers |->
                                 IF \E i \in 1..Len(r.ran) : r.ran[i].name = m
                                 THEN (CHOOSE e \in {r.ran[i] : i \in 1..Len(r.ran)} :
                                          e.name = m).at
                                 ELSE last.firedAt[m]]]
    /\ UNCHANGED <<pc, conf, table, transport>>

NextCallbacks ==
    \/ NextTimers
    \/ CheckTimersDeleting

SpecCallbacks == InitTimers /\ [][NextCallbacks]_vars

(***************************************************************************)
(* The queries of dbapi.py called one by one on a connection, in any order  *)
(* and at any time, as tests/test_queries.py and tests/test_caching.py do.  *)
(* Each call reads the clock once (insert_record twice).  The clock is      *)
(* counted in fractions of a second: two readings may differ within one     *)
(* second.                                                                  *)
(***************************************************************************)
\* the phones whose rows are in cooldown (observation only)
CoolingPhones(rows) == {r.phone : r \in {x \in rows : x.cooldown_expiry # NULL}}

\* time.time() reads fractions of a second: in this specification the unit of
\* the clock, and of the configured times, is 1/TicksPerSecond of a second
TicksPerSecond == 2
SecondOf(t) == t \div TicksPerSecond

StoreActiveTimes == {1}
StoreCooldownTimes == {1}

InitStore ==
    /\ now = 0
    /\ pc = "dbapi"
    /\ conf \in [manifest_size : {1}, active_time : StoreActiveTimes,
                 cooldown_time : StoreCooldownTimes, refresh_time : {0}]
    /\ table = {}
    /\ timers = << >>
    /\ transport = "open"
    /\ last = Observed("init")

\* dbapi.insert_record for a phone that has no row
StoreInsert(phone) ==
    /\ pc = "dbapi"
    /\ \E t2 \in now..(now + MaxDrift) :
         LET ins == insert_record(table, phone, "127.0.0.1", "hogwarts",
                                  "guid-" \o phone, "wizard", now, t2)
         IN /\ t2 <= MaxTime
            /\ ~ins.raised
            /\ table' = ins.rows
            /\ now' = t2
    /\ last' = [Observed("insert_record") EXCEPT !.store_op = "insert"]
    /\ UNCHANGED <<pc, conf, timers, transport>>

\* dbapi.update_active_time
StoreTouch(phone) ==
    /\ pc = "dbapi"
    /\ table' = update_active_time(table, phone, now)
    /\ last' = Observed("update_active_time")
    /\ UNCHANGED <<now, pc, conf, timers, transport>>

\* dbapi.delete_record
StoreDelete(phone) ==
    /\ pc = "dbapi"
    /\ table' = delete_record(table, phone).rows
    /\ last' = [Observed("delete_record") EXCEPT
                  !.deleted = delete_record(table, phone).rowcount]
    /\ UNCHANGED <<now, pc, conf, timers, transport>>

\* dbapi.select_manifest_records
StoreSelect ==
    /\ pc = "dbapi"
    /\ \E records \in select_manifest_records(table, conf.active_time, now) :
         last' = [Observed("select_manifest_records") EXCEPT !.selected = records]
    /\ UNCHANGED <<now, pc, conf, table, timers, transport>>

\* dbapi.update_to_tasked for the first k records of a selection
StoreTasked ==
    /\ pc = "dbapi"
    /\ \E records \in select_manifest_records(table, conf.active_time, now) :
         \E k \in 1..Len(records) :
            table' = update_to_tasked(table, SubSeq(records, 1, k), now)
    /\ last' = Observed("update_to_tasked")
    /\ UNCHANGED <<now, pc, conf, timers, transport>>

\* dbapi.update_to_cooldown
StoreCooldown ==
    /\ pc = "dbapi"
    /\ table' = update_to_cooldown(table, conf.cooldown_time, now)
    /\ last' = [Observed("update_to_cooldown") EXCEPT !.cooling = CoolingPhones(table)]
    /\ UNCHANGED <<now, pc, conf, timers, transport>>

\* dbapi.update_free_cooldown
StoreFree ==
    /\ pc = "dbapi"
    /\ table' = update_free_cooldown(table, conf.active_time, now)
    /\ last' = Observed("update_free_cooldown")
    /\ UNCHANGED <<now, pc, conf, timers, transport>>

\* dbapi.update_to_cooldown and then dbapi.update_free_cooldown, the clock
\* reading the same for both
StoreCooldownThenFree ==
    /\ pc = "dbapi"
    /\ table' = update_free_cooldown(
                    update_to_cooldown(table, conf.cooldown_time, now),
                    conf.active_time, now)
    /\ last' = [Observed("update_to_cooldown, update_free_cooldown") EXCEPT
                  !.cooling = CoolingPhones(table)]
    /\ UNCHANGED <<now, pc, conf, timers, transport>>

\* dbapi.delete_expired_records, which returns the rowcount
StoreDeleteExpired ==
    /\ pc = "dbapi"
    /\ table' = delete_expired_records(table, conf.active_time, now)
    /\ last' = [Observed("delete_expired_records") EXCEPT
                  !.deleted = Cardinality(table) - Cardinality(table')]
    /\ UNCHANGED <<now, pc, conf, timers, transport>>

\* dbapi.delete_finished_cooldown, which returns the rowcount
StoreDeleteFinished ==
    /\ pc = "dbapi"
    /\ table' = delete_finished_cooldown(table, now)
    /\ last' = [Observed("delete_finished_cooldown") EXCEPT
                  !.deleted = Cardinality(table) - Cardinality(table')]
    /\ UNCHANGED <<now, pc, conf, timers, transport>>

\* Pi._prune_cache on the connection: delete_expired_records reads the clock,
\* then delete_finished_cooldown reads it
StorePrune ==
    /\ pc = "dbapi"
    /\ \E t2 \in now..(now + MaxDrift) :
          /\ t2 <= MaxTime
          /\ table' = prune_cache(table, conf, now, t2)
          /\ now' = t2
    /\ last' = [Observed("_prune_cache") EXCEPT
                  !.deleted = Cardinality(table) - Cardinality(table'),
                  !.cooling = CoolingPhones(table)]
    /\ UNCHANGED <<pc, conf, timers, transport>>

\* time passes between two calls
StoreElapse ==
    /\ pc = "dbapi"
    /\ now < MaxTime
    /\ now' = now + 1
    /\ last' = Observed("elapse")
    /\ UNCHANGED <<pc, conf, table, timers, transport>>

NextStore ==
    \/ \E phone \in Phones : StoreInsert(phone)
    \/ \E phone \in Phones : StoreTouch(phone)
    \/ \E phone \in Phones : StoreDelete(phone)
    \/ StoreSelect
    \/ StoreTasked
    \/ StoreCooldown
    \/ StoreFree
    \/ StoreCooldownThenFree
    \/ StoreDeleteExpired
    \/ StoreDeleteFinished
    \/ StorePrune
    \/ StoreElapse

SpecStore == InitStore /\ [][NextStore]_vars

(***************************************************************************)
(* Properties                                                              *)
(***************************************************************************)
\* the message the last step handled, and what can be read from it
LastMsg == last.msg
Delivered == last.op = "deliver"
WellFormed(m) == DOMAIN m.headers = HeaderNames
RowsOf(rows, phone) == {r \in rows : r.phone = phone}
PhonesIn(records) == {records[i].phone : i \in 1..Len(records)}

\* C1: after any sequence of start messages, stop messages and manifest
\* cycles the table holds at most one row per phone.
C1_OneRecordPerPhone ==
    \A r1, r2 \in table : r1.phone = r2.phone => r1 = r2

\* a start for a phone already in the table, beside another phone's row
C1_Witness ==
    /\ Delivered /\ last.store_op = "touch"
    /\ Cardinality(table) >= 2
    /\ \E r \in table : r.tasked_time # NULL

\* C2: every manifest of a cycle holds at most manifest_size records.
C2_ManifestBounded ==
    \A c \in last.cycle : Len(c.manifest) <= conf.manifest_size

\* a cycle whose final select returned more than manifest_size rows while
\* another row was in cooldown
C2_Witness ==
    \E c \in last.cycle :
        /\ Len(c.records) > conf.manifest_size
        /\ Len(c.manifest) = conf.manifest_size
        /\ \E r \in table : r.tasked_time # NULL /\ r.cooldown_expiry = NULL

\* the rows that are eligible (cooldown unset, still active) at time t
EligibleAt(rows, t) ==
    {r \in rows : r.cooldown_expiry = NULL /\ r.last_active + conf.active_time >= t}

\* C3 as stated: when the final select of a cycle takes its snapshot, at most
\* manifest_size rows of the table are eligible.
C3_EligibleAtSelectBounded ==
    \A c \in last.cycle :
        Cardinality(EligibleAt(c.selRows, c.selNow)) <= conf.manifest_size

\* C3 as amended: when the final select takes its snapshot, more than
\* manifest_size rows are eligible only if more than manifest_size eligible rows
\* have never been in a manifest or the cycle's release step has run; the
\* manifest then holds the first manifest_size of them.
C3_EligibleAtSelectBoundedUnless ==
    \A c \in last.cycle :
        LET eligible == EligibleAt(c.selRows, c.selNow)
        IN  /\ Cardinality(eligible) > conf.manifest_size =>
                \/ c.freed
                \/ Cardinality({r \in eligible : r.tasked_time = NULL})
                      > conf.manifest_size
            /\ Len(c.manifest) =
                  IF Cardinality(eligible) > conf.manifest_size
                  THEN conf.manifest_size ELSE Cardinality(eligible)

\* a cycle that released nobody and whose final select still found more than
\* manifest_size eligible rows
C3_Witness ==
    \E c \in last.cycle :
        /\ Cardinality(EligibleAt(c.selRows, c.selNow)) > conf.manifest_size
        /\ ~c.freed

\* C4: every record of a cycle's manifest has cooldown_expiry unset and
\* last_active + active_time >= now, now being the time the final select read;
\* a row whose cooldown_expiry is set when the select runs is not in the
\* manifest, whatever its last_active.
C4_ManifestRecordsEligible ==
    \A c \in last.cycle :
        /\ \A i \in 1..Len(c.manifest) :
              /\ c.manifest[i].cooldown_expiry = NULL
              /\ c.manifest[i].last_active + conf.active_time >= c.selNow
              /\ \E r \in c.selRows : r = c.manifest[i]
        /\ \A r \in c.selRows :
              r.cooldown_expiry # NULL => r.phone \notin PhonesIn(c.manifest)

\* a cycle with a non-empty manifest that left out a row in cooldown which is
\* still active
C4_Witness ==
    \E c \in last.cycle :
        /\ Len(c.manifest) >= 1
        /\ \E r \in c.selRows :
              /\ r.cooldown_expiry # NULL
              /\ r.last_active + conf.active_time >= c.selNow
              /\ r.phone \notin PhonesIn(c.manifest)

\* C5: in a cycle that starts with more eligible rows than manifest_size, no
\* record that was in an earlier manifest (tasked_time set before the cycle) is
\* in this manifest while an eligible row that has never been in a manifest is
\* left out.
C5_ServedNotPreferredToUnserved ==
    \A c \in last.cycle :
        c.startEligible > conf.manifest_size =>
            ~ /\ \E i \in 1..Len(c.manifest) : c.manifest[i].tasked_time # NULL
              /\ \E r \in EligibleAt(c.selRows, c.selNow) :
                    /\ r.tasked_time = NULL
                    /\ r.phone \notin PhonesIn(c.manifest)

\* C6: a start for a phone already in the table changes only that row's
\* last_active, which becomes the time read: date_created, cooldown_expiry,
\* tasked_time and the other columns stay, no row is added, other rows stay;
\* also when the row is in cooldown.
C6_StartExistingOnlyTouches ==
    [][ ( /\ last'.op = "deliver"
          /\ last'.msg.routing_key = START
          /\ WellFormed(last'.msg)
          /\ RowsOf(table, last'.msg.headers["phone"]) # {} )
        => LET phone == last'.msg.headers["phone"]
           IN /\ Cardinality(table') = Cardinality(table)
              /\ \A r \in table : r.phone # phone => r \in table'
              /\ \A r \in RowsOf(table, phone) :
                    \E q \in table' :
                        /\ q.phone = phone
                        /\ q.last_active = now
                        /\ q.date_created = r.date_created
                        /\ q.cooldown_expiry = r.cooldown_expiry
                        /\ q.tasked_time = r.tasked_time
                        /\ q.ip_addr = r.ip_addr /\ q.region = r.region
                        /\ q.guid = r.guid /\ q.description = r.description
              /\ now' = now
      ]_vars

\* a start has refreshed a row that is in cooldown and was created earlier
C6_Witness ==
    /\ Delivered /\ LastMsg.routing_key = START /\ last.store_op = "touch"
    /\ \E r \in table :
          /\ r.phone = LastMsg.headers["phone"]
          /\ r.cooldown_expiry # NULL
          /\ r.date_created < r.last_active
          /\ r.last_active = now

\* C7: a stop for a phone whose row exists and is not in cooldown removes
\* exactly that row (delete count 1), leaves every other row as it was, and
\* the message is acked.
C7_StopRemovesRecord ==
    [][ ( /\ last'.op = "deliver"
          /\ last'.msg.routing_key = STOP
          /\ WellFormed(last'.msg)
          /\ \E r \in RowsOf(table, last'.msg.headers["phone"]) :
                r.cooldown_expiry = NULL )
        => /\ table' = table \ RowsOf(table, last'.msg.headers["phone"])
           /\ last'.deleted = 1
           /\ last'.channel = <<"ack">>
      ]_vars

\* a stop has removed one row and left another, which is in cooldown
C7_Witness ==
    /\ Delivered /\ LastMsg.routing_key = STOP /\ last.deleted = 1
    /\ last.channel = <<"ack">>
    /\ \E r \in table : r.cooldown_expiry # NULL

\* C8: a stop for a phone that is absent, or whose row is in cooldown, leaves
\* the table as it was (delete count 0), logs a warning, is acked, and the
\* consume loop goes on.
C8_StopIgnored ==
    [][ ( /\ last'.op = "deliver"
          /\ last'.msg.routing_key = STOP
          /\ WellFormed(last'.msg)
          /\ \A r \in RowsOf(table, last'.msg.headers["phone"]) :
                r.cooldown_expiry # NULL )
        => /\ table' = table
           /\ last'.deleted = 0
           /\ last'.logs = <<"warning">>
           /\ last'.channel = <<"ack">>
           /\ pc' = "consuming"
      ]_vars

\* a stop has been handled for a phone whose row is in cooldown
C8_Witness ==
    /\ Delivered /\ LastMsg.routing_key = STOP /\ last.handler = "on_stop"
    /\ last.deleted = 0 /\ last.logs = <<"warning">>
    /\ \E r \in table :
          r.phone = LastMsg.headers["phone"] /\ r.cooldown_expiry # NULL

\* C9: a message whose routing key is neither "start" nor "stop" is rejected
\* and not acked, neither handler runs, and the table stays as it was.
C9_BadRoutingKeyRejected ==
    [][ ( /\ last'.op = "deliver"
          /\ last'.msg.routing_key \notin {"start", "stop"} )
        => /\ last'.channel = <<"reject">>
           /\ last'.handler = "none"
           /\ table' = table
      ]_vars

\* a message with another routing key and well-formed headers has been
\* handled while the table held that phone's row
C9_Witness ==
    /\ Delivered /\ LastMsg.routing_key \notin {"start", "stop"}
    /\ WellFormed(LastMsg)
    /\ RowsOf(table, LastMsg.headers["phone"]) # {}
    /\ last.channel = <<"reject">>

OthersPresent(m) == (HeaderNames \ {"description"}) \subseteq DOMAIN m.headers

\* C11 as stated: a start message whose description header is missing or
\* empty, its other required headers being present, is handled by on_start and
\* acked, not rejected, the description being taken to be "UNKNOWN".
C11_MissingOrEmptyDescriptionAccepted ==
    [][ ( /\ last'.op = "deliver"
          /\ last'.msg.routing_key = START
          /\ OthersPresent(last'.msg)
          /\ \/ "description" \notin DOMAIN last'.msg.headers
             \/ Lookup(last'.msg.headers, "description") = "" )
        => /\ last'.channel = <<"ack">>
           /\ last'.handler = "on_start"
           /\ last'.desc = "UNKNOWN"
      ]_vars

\* C11 as amended: a start message whose description header is there but
\* empty, its other required headers being present, is handled by on_start and
\* acked with the description taken to be "UNKNOWN"; one whose description
\* header is missing is rejected, no handler runs and the table stays as it was.
C11_EmptyDescriptionAcceptedMissingRejected ==
    [][ ( /\ last'.op = "deliver"
          /\ last'.msg.routing_key = START
          /\ OthersPresent(last'.msg) )
        => /\ ( /\ "description" \in DOMAIN last'.msg.headers
                /\ last'.msg.headers["description"] = "" )
              => /\ last'.channel = <<"ack">>
                 /\ last'.handler = "on_start"
                 /\ last'.desc = "UNKNOWN"
           /\ "description" \notin DOMAIN last'.msg.headers
              => /\ last'.channel = <<"reject">>
                 /\ last'.handler = "none"
                 /\ table' = table
      ]_vars

\* a start with an empty description has inserted a row and was acked
C11_Witness ==
    /\ Delivered /\ LastMsg.routing_key = START
    /\ WellFormed(LastMsg) /\ LastMsg.headers["description"] = ""
    /\ last.store_op = "insert" /\ last.channel = <<"ack">>
    /\ last.desc = "UNKNOWN"

\* C12: after a valid start for a phone not in the table, the new row's region
\* is the region header, its description the description header (or
\* "UNKNOWN"), its ip_addr and guid the headers of that name, date_created =
\* last_active = now (a time read while the message was handled), and
\* cooldown_expiry and tasked_time are unset.
C12_InsertedRecordMatchesHeaders ==
    [][ ( /\ last'.op = "deliver"
          /\ last'.msg.routing_key = START
          /\ WellFormed(last'.msg)
          /\ RowsOf(table, last'.msg.headers["phone"]) = {} )
        => LET h == last'.msg.headers
           IN \E q \in table' :
                /\ table' = table \cup {q}
                /\ q.phone = h["phone"]
                /\ q.region = h["region"]
                /\ q.description = DescOrUnknown(h["description"])
                /\ q.ip_addr = h["ip_addr"]
                /\ q.guid = h["guid"]
                /\ q.date_created = q.last_active
                /\ q.date_created \in now..now'
                /\ q.cooldown_expiry = NULL
                /\ q.tasked_time = NULL
      ]_vars

\* C13: every call of publish_manifest (check_timers finding the manifest timer
\* due) that completes publishes exactly one message, also when the manifest
\* is empty, and the message's records header is the number of entries of its
\* body, which is the manifest of that cycle.
C13_OneManifestPerCycle ==
    [][ ( /\ last'.op = "timeout"
          /\ TIMER \in DOMAIN timers
          /\ TimerDue(timers[TIMER], now) )
        => /\ Len(last'.published) = 1
           /\ last'.published[1].records = Len(last'.published[1].body)
           /\ \A c \in last'.cycle : last'.published[1].body = c.manifest
           /\ last'.cycle # {}
      ]_vars

\* an empty manifest has been published while the table held rows
C13_Witness ==
    /\ last.op = "timeout"
    /\ Len(last.published) = 1
    /\ last.published[1].records = 0 /\ last.published[1].body = << >>
    /\ table # {}

SameSecondCycles ==
    /\ last.cycle # {} /\ last'.cycle # {}
    /\ \A c \in last.cycle : c.startNow = now
    /\ now' = now

\* C15 as stated: two publish_manifest calls at the same clock second with no
\* message handled in between publish the same records count and the same set
\* of phones.
C15_SameSecondSameManifest ==
    [][ SameSecondCycles
        => \A c1 \in last.cycle, c2 \in last'.cycle :
              /\ last'.published[1].records = last.published[1].records
              /\ PhonesIn(c2.manifest) = PhonesIn(c1.manifest)
      ]_vars

\* C15 as amended: two such calls publish the same records count; they publish
\* the same set of phones when the first call's selection did not have to be
\* trimmed (it found at most manifest_size eligible rows).
C15_SameSecondSameCount ==
    [][ SameSecondCycles
        => \A c1 \in last.cycle, c2 \in last'.cycle :
              /\ last'.published[1].records = last.published[1].records
              /\ Len(c1.records) <= conf.manifest_size
                 => PhonesIn(c2.manifest) = PhonesIn(c1.manifest)
      ]_vars

\* the second of two calls in the same second has published as many records
\* as the first, but other phones
C15_Witness ==
    /\ last.op = "timeout"
    /\ Len(last.previous) = 1
    /\ \E c \in last.cycle :
          /\ c.startNow = now
          /\ last.published[1].records = last.previous[1].records
          /\ last.published[1].records >= 1
          /\ PhonesIn(last.published[1].body) # PhonesIn(last.previous[1].body)

\* the manifest timer is due while the consume loop runs
ManifestTimerDue ==
    /\ pc = "consuming"
    /\ TIMER \in DOMAIN timers
    /\ TimerDue(timers[TIMER], now)

\* C16: whenever the manifest timer is due and the consume loop is running,
\* publish_manifest is eventually called, whatever the pattern of message
\* arrivals, also when a message is delivered within every bounded wait.
C16_DueTimerEventuallyRuns ==
    ManifestTimerDue ~> (last.op = "timeout" /\ last.cycle # {})

\* C17: once the transport has been closed from outside, the next turn of the
\* consume loop ends consume and run, whose cleanup has then taken the manifest
\* timer away and stopped PI.
C17_ClosedTransportEndsRun ==
    [][ ( /\ transport = "closed"
          /\ pc = "consuming"
          /\ last'.op \in {"timeout", "broken"} )
        => /\ pc' = "stopped"
           /\ TIMER \notin DOMAIN timers'
      ]_vars

\* C18: for a row that stays in the table over a step, tasked_time becomes the
\* time read while the rows are marked (between the select and the end of the
\* cycle) when the row is in the step's manifest, and stays as it was in any
\* other step; so it never decreases and, once set, is never unset by a
\* start, a stop, a prune, a cooldown or a release.
C18_TaskedTimeMonotonic ==
    [][ \A r \in table, q \in table' :
          q.phone = r.phone =>
            /\ r.tasked_time # NULL =>
                  /\ q.tasked_time # NULL
                  /\ q.tasked_time >= r.tasked_time
            /\ IF \E c \in last'.cycle : q.phone \in PhonesIn(c.manifest)
               THEN \A c \in last'.cycle :
                       /\ q.tasked_time >= c.selNow
                       /\ q.tasked_time <= now'
               ELSE q.tasked_time = r.tasked_time
      ]_vars

\* a row that had been in a manifest before, and was released from cooldown in
\* this cycle, is in the manifest again and has a later tasked_time
C18_Witness ==
    \E c \in last.cycle :
        /\ c.cooled /\ c.freed
        /\ \E i \in 1..Len(c.manifest), q \in table :
              /\ q.phone = c.manifest[i].phone
              /\ c.manifest[i].tasked_time # NULL
              /\ q.tasked_time > c.manifest[i].tasked_time

\* C20: handling a start message does exactly one of insert (the phone has no
\* row: one row is added) and touch (the phone has a row: no row is added),
\* never insert for a phone that has a row, so no duplicate-key error is
\* raised and the consume loop goes on.
C20_StartInsertsOrTouches ==
    [][ ( /\ last'.op = "deliver"
          /\ last'.msg.routing_key = START
          /\ WellFormed(last'.msg) )
        => LET phone == last'.msg.headers["phone"]
           IN /\ last'.handler = "on_start"
              /\ last'.store_op \in {"insert", "touch"}
              /\ last'.store_op = "insert" <=> RowsOf(table, phone) = {}
              /\ Cardinality(table') =
                    Cardinality(table) + (IF last'.store_op = "insert" THEN 1 ELSE 0)
              /\ Cardinality(RowsOf(table', phone)) = 1
              /\ ~last'.raised
              /\ pc' = "consuming"
      ]_vars

\* a start has inserted a row, after time 0, beside a row that is in cooldown
C20_Witness ==
    /\ Delivered /\ LastMsg.routing_key = START /\ last.store_op = "insert"
    /\ ~last.raised /\ pc = "consuming"
    /\ \E r \in table : r.cooldown_expiry # NULL
    /\ \E q \in table :
          /\ q.phone = LastMsg.headers["phone"]
          /\ q.tasked_time = NULL /\ q.date_created = now /\ now > 0

\* C19: a row whose phone gets no further start message is eventually gone
\* from the table, provided time goes on and manifest cycles keep running,
\* whatever happens to the other phones.  Stated for the first phone, the
\* phones being interchangeable.
\* (A start for the phone leaves its row with the last_active just read.)
C19_RecordEventuallyAbsent ==
    \A ph \in {PhoneNames[1]} :
        (RowsOf(table, ph) # {})
            ~> ( \/ RowsOf(table, ph) = {}
                 \/ \E r \in RowsOf(table, ph) : r.last_active >= now )

\* C21: in the balance step of a cycle (_send_to_cooldown) update_to_cooldown
\* is applied exactly when the first read of the eligible rows finds more than
\* manifest_size of them, and update_free_cooldown exactly when the second
\* read, made after it, finds fewer than manifest_size; when cooldown was
\* applied and nobody released, no tasked row is left out of cooldown.
C21_BalanceStep ==
    \A c \in last.cycle :
        /\ c.cooled <=> c.e1 > conf.manifest_size
        /\ c.freed <=> c.e2 < conf.manifest_size
        /\ (c.cooled /\ ~c.freed) =>
              \A r \in c.selRows : r.tasked_time # NULL => r.cooldown_expiry # NULL
        /\ c.cooled => c.e2 <= c.e1

\* a cycle in which both happened: too many eligible rows at the first read,
\* too few at the second, and a released row is in the manifest
C21_Witness ==
    \E c \in last.cycle :
        /\ c.e1 > conf.manifest_size /\ c.cooled
        /\ c.e2 < conf.manifest_size /\ c.freed
        /\ Len(c.manifest) >= 1

\* what a call of update_to_cooldown does to the table: cooldown_expiry becomes
\* now + cooldown_time on every row whose tasked_time is set, rows already in
\* cooldown included; no other column and no row whose tasked_time is unset
\* changes; no row is added or removed
CooldownEffect ==
    /\ \A r \in table : \E q \in table' :
          /\ q.phone = r.phone /\ q.ip_addr = r.ip_addr /\ q.region = r.region
          /\ q.guid = r.guid /\ q.description = r.description
          /\ q.date_created = r.date_created /\ q.last_active = r.last_active
          /\ q.tasked_time = r.tasked_time
          /\ q.cooldown_expiry =
                IF r.tasked_time = NULL THEN r.cooldown_expiry
                ELSE now + conf.cooldown_time
    /\ Cardinality(table') = Cardinality(table)

\* the table is as a call of update_to_cooldown at time t leaves it
CooledAt(t) ==
    \A r \in table :
        r.tasked_time # NULL => r.cooldown_expiry = t + conf.cooldown_time

\* C22 as stated: update_to_cooldown has the effect above, and applied to a
\* table that a call within the same second left it changes nothing.
C22_CooldownIdempotentWithinSecond ==
    [][ last'.op = "update_to_cooldown"
        => /\ CooldownEffect
           /\ (\E t \in 0..now : SecondOf(t) = SecondOf(now) /\ CooledAt(t))
                 => table' = table
      ]_vars

\* C22 as amended: update_to_cooldown has the effect above, and applied to a
\* table that a call at the same reading of the clock left it changes nothing.
C22_CooldownIdempotentAtSameReading ==
    [][ last'.op = "update_to_cooldown"
        => /\ CooldownEffect
           /\ CooledAt(now) => table' = table
      ]_vars

\* update_to_cooldown has given a later expiry to a row that was in cooldown
\* already, beside a row never tasked which it left out of cooldown
C22_Witness ==
    /\ last.op = "update_to_cooldown"
    /\ \E r \in table :
          /\ r.phone \in last.cooling
          /\ r.tasked_time # NULL /\ r.tasked_time < now
          /\ r.cooldown_expiry = now + conf.cooldown_time
    /\ \E r \in table : r.tasked_time = NULL /\ r.cooldown_expiry = NULL
    /\ last.cooling # {r.phone : r \in table}

\* C23: when the final select of a cycle returns more than manifest_size rows,
\* the manifest is the first manifest_size of them, the list being in order of
\* date_created, latest first; the rows of the manifest are the only ones
\* whose tasked_time the cycle sets (to a time read after the select), and
\* every row left out stays in the table with all its columns as they were.
C23_TrimTakesFirstAndLeavesTail ==
    \A c \in last.cycle :
        Len(c.records) > conf.manifest_size =>
            /\ c.manifest = SubSeq(c.records, 1, conf.manifest_size)
            /\ \A i, j \in 1..Len(c.records) :
                  i < j => c.records[i].date_created >= c.records[j].date_created
            /\ \A r \in c.selRows :
                  IF r.phone \in PhonesIn(c.manifest)
                  THEN \E q \in table :
                          /\ q = [r EXCEPT !.tasked_time = q.tasked_time]
                          /\ q.tasked_time >= c.selNow /\ q.tasked_time <= now
                  ELSE r \in table
            /\ Cardinality(table) = Cardinality(c.selRows)

\* a cycle has cut its list: a row created earlier than the ones kept was left
\* out and is still in the table, never tasked
C23_Witness ==
    \E c \in last.cycle :
        /\ Len(c.records) > conf.manifest_size
        /\ \E j \in (conf.manifest_size + 1)..Len(c.records) :
              /\ c.records[j] \in table
              /\ c.records[j].tasked_time = NULL
              /\ c.records[j].date_created < c.manifest[1].date_created
        /\ \A q \in table : q.phone \in PhonesIn(c.manifest) => q.tasked_time # NULL

\* C24 as stated: select_manifest_records lists the eligible rows by
\* date_created, latest first, and rows with equal date_created by phone,
\* smallest first, so that the list is fixed by the rows of the table.
C24_TiesByPhoneAscending ==
    \A i, j \in 1..Len(last.selected) :
        i < j =>
            \/ last.selected[i].date_created > last.selected[j].date_created
            \/ /\ last.selected[i].date_created = last.selected[j].date_created
               /\ PhoneIndex(last.selected[i].phone) < PhoneIndex(last.selected[j].phone)

\* C24 as amended: select_manifest_records lists every eligible row of the
\* table once, and no other row, by date_created, latest first; the order of
\* rows with equal date_created is not fixed by their columns.
C24_ByDateCreatedOnly ==
    last.op = "select_manifest_records" =>
        /\ \A i, j \in 1..Len(last.selected) :
              /\ i < j => last.selected[i].date_created >= last.selected[j].date_created
              /\ i # j => last.selected[i] # last.selected[j]
        /\ {last.selected[i] : i \in 1..Len(last.selected)}
              = {r \in table : /\ r.cooldown_expiry = NULL
                               /\ r.last_active + conf.active_time >= now}

\* two rows of equal date_created listed with the larger phone first, while a
\* row in cooldown and still active was left out of the list
C24_Witness ==
    /\ last.op = "select_manifest_records"
    /\ \E i, j \in 1..Len(last.selected) :
          /\ i < j
          /\ last.selected[i].date_created = last.selected[j].date_created
          /\ PhoneIndex(last.selected[i].phone) > PhoneIndex(last.selected[j].phone)
    /\ \E r \in table :
          r.cooldown_expiry # NULL /\ r.last_active + conf.active_time >= now

\* C25 as stated: update_to_cooldown followed by update_free_cooldown at the
\* same instant leaves every row with last_active + active_time >= now as it
\* was, whatever its tasked_time and cooldown_expiry.
C25_CooldownThenFreeKeepsOpenWindows ==
    [][ last'.op = "update_to_cooldown, update_free_cooldown"
        => \A r \in table :
              r.last_active + conf.active_time >= now => r \in table'
      ]_vars

\* C25 as amended: update_to_cooldown followed by update_free_cooldown at the
\* same instant leaves as it was every row with last_active + active_time >
\* now that was not in cooldown, and every row never tasked; a row that was in
\* cooldown with last_active + active_time > now ends released; a tasked row
\* with last_active + active_time <= now ends in cooldown until now +
\* cooldown_time; no other column changes and no row is added or removed.
C25_CooldownThenFreeEffect ==
    [][ last'.op = "update_to_cooldown, update_free_cooldown"
        => /\ \A r \in table :
                IF r.last_active + conf.active_time > now
                THEN IF r.cooldown_expiry = NULL
                     THEN r \in table'
                     ELSE [r EXCEPT !.cooldown_expiry = NULL] \in table'
                ELSE IF r.tasked_time = NULL
                     THEN r \in table'
                     ELSE [r EXCEPT !.cooldown_expiry = now + conf.cooldown_time]
                             \in table'
           /\ Cardinality(table') = Cardinality(table)
      ]_vars

\* the two calls have released a row that was in cooldown and is still inside
\* its window, and have put in cooldown a tasked row whose window closes now
C25_Witness ==
    /\ last.op = "update_to_cooldown, update_free_cooldown"
    /\ \E r \in table :
          /\ r.phone \in last.cooling
          /\ r.cooldown_expiry = NULL
          /\ r.last_active + conf.active_time > now
    /\ \E r \in table :
          /\ r.phone \notin last.cooling
          /\ r.last_active + conf.active_time = now
          /\ r.cooldown_expiry = now + conf.cooldown_time

\* C26 as stated: _prune_cache removes exactly the rows that are not in
\* cooldown and expired (last_active + active_time <= now, as the first delete
\* reads the clock) or whose cooldown has finished (cooldown_expiry <= now, as
\* the second delete reads it); every other row stays as it was, among them
\* every row still inside its activity window.
C26_PruneKeepsOpenWindows ==
    [][ last'.op = "_prune_cache"
        => /\ table' \subseteq table
           /\ \A r \in table :
                 r \notin table' <=>
                    \/ r.cooldown_expiry = NULL /\ r.last_active + conf.active_time <= now
                    \/ r.cooldown_expiry # NULL /\ r.cooldown_expiry <= now'
           /\ \A r \in table :
                 r.last_active + conf.active_time > now' => r \in table'
      ]_vars

\* C26 as amended: _prune_cache removes exactly the rows that are not in
\* cooldown and expired or whose cooldown has finished, and every other row
\* stays as it was: a row in unfinished cooldown whose activity window has
\* closed stays, and a row still inside its activity window stays unless its
\* cooldown has finished.
C26_PruneRemovesExpiredAndFinished ==
    [][ last'.op = "_prune_cache"
        => /\ table' \subseteq table
           /\ \A r \in table :
                 r \notin table' <=>
                    \/ r.cooldown_expiry = NULL /\ r.last_active + conf.active_time <= now
                    \/ r.cooldown_expiry # NULL /\ r.cooldown_expiry <= now'
           /\ \A r \in table :
                 ( /\ r.cooldown_expiry # NULL /\ r.cooldown_expiry > now'
                   /\ r.last_active + conf.active_time <= now ) => r \in table'
           /\ \A r \in table :
                 ( /\ r.last_active + conf.active_time > now'
                   /\ ~(r.cooldown_expiry # NULL /\ r.cooldown_expiry <= now') )
                 => r \in table'
           /\ last'.deleted = Cardinality(table \ table')
      ]_vars

\* _prune_cache has removed two rows, one of them in cooldown, and kept a row
\* that is not in cooldown and inside its window
C26_Witness ==
    /\ last.op = "_prune_cache" /\ last.deleted = 2
    /\ \E phone \in last.cooling : RowsOf(table, phone) = {}
    /\ \E r \in table :
          r.cooldown_expiry = NULL /\ r.last_active + conf.active_time > now

\* C27 as stated: delete_expired_records removes a row only when its
\* cooldown_expiry is unset and last_active + active_time < now; it removes no
\* row that is eligible (cooldown_expiry unset, last_active + active_time >=
\* now) at that instant.
C27_ExpiryPruneSparesEligible ==
    [][ last'.op = "delete_expired_records"
        => /\ \A r \in table \ table' :
                 r.cooldown_expiry = NULL /\ r.last_active + conf.active_time < now
           /\ ManifestRows(table, conf.active_time, now) \subseteq table'
      ]_vars

\* C27 as amended: delete_expired_records removes exactly the rows whose
\* cooldown_expiry is unset and last_active + active_time <= now, and changes
\* no other row: it removes no row with last_active + active_time > now and no
\* row in cooldown, but it does remove the rows with last_active + active_time
\* = now, which are eligible at that instant.
C27_ExpiryPruneRemovesAtBoundary ==
    [][ last'.op = "delete_expired_records"
        => /\ table' = {r \in table :
                          \/ r.cooldown_expiry # NULL
                          \/ r.last_active + conf.active_time > now}
           /\ \A r \in ManifestRows(table, conf.active_time, now) :
                 r \in table' <=> r.last_active + conf.active_time # now
           /\ last'.deleted = Cardinality(table \ table')
      ]_vars

\* delete_expired_records has removed rows, all of them last active at time 0
\* with active_time = now, and kept a row in cooldown of the same age
C27_Witness ==
    /\ last.op = "delete_expired_records" /\ last.deleted >= 1
    /\ now = conf.active_time
    /\ \E r \in table :
          r.cooldown_expiry # NULL /\ r.last_active + conf.active_time = now

\* C28: with active_time = 0 the prune of every cycle removes every row of the
\* table, a row inserted at the very time the prune reads included: after
\* each cycle the table is empty, the manifest is empty and the message
\* published has no records; no row is ever tasked or in cooldown.
C28_ZeroActiveTimeEmptiesStore ==
    /\ \A c \in last.cycle :
          /\ table = {}
          /\ c.manifest = << >>
          /\ c.selRows = {}
          /\ \A i \in 1..Len(last.published) :
                last.published[i].records = 0 /\ last.published[i].body = << >>
    /\ \A r \in table : r.tasked_time = NULL /\ r.cooldown_expiry = NULL

\* a cycle has emptied a table that held, when it started, rows last active
\* at that very time, and has published an empty manifest
C28_Witness ==
    /\ last.op = "timeout" /\ Len(last.published) = 1
    /\ conf.active_time = 0
    /\ \E c \in last.cycle : c.startEligible >= 2 /\ c.startNow > 0
    /\ table = {}

\* C29: check_timers calls the method of each timer that is due when it is
\* tested (last_run + interval <= the clock as read for the test) exactly
\* once and then sets its last_run to the clock as read after the method
\* returned; a timer that is not due is not called and keeps its last_run; no
\* timer is added or removed; and a call of a timer's method comes at least
\* interval after the call before it.
C29_TickRunsDueTimersOnce ==
    [][ last'.op = "check_timers"
        => /\ DOMAIN timers' = DOMAIN timers
           /\ \A n \in DOMAIN timers :
                 LET calls == {i \in 1..Len(last'.ran) : last'.ran[i].name = n}
                 IN /\ Cardinality(calls) <= 1
                    /\ timers[n].last_run + timers[n].interval <= now => calls # {}
                    /\ \A i \in calls :
                          LET e == last'.ran[i]
                          IN /\ timers[n].last_run + timers[n].interval <= e.at
                             /\ now <= e.at /\ e.at <= e.done /\ e.done <= now'
                             /\ timers'[n] = [timers[n] EXCEPT !.last_run = e.done]
                             /\ e.prev # NULL => e.at - e.prev >= timers[n].interval
                    /\ calls = {} =>
                          /\ timers'[n] = timers[n]
                          /\ timers[n].last_run + timers[n].interval > now
           /\ \A i \in 1..Len(last'.ran) : last'.ran[i].name \in DOMAIN timers
      ]_vars

\* check_timers has called, for the second time and two seconds after the
\* first, the method of a timer whose interval is 2, and has not called the
\* other timer, which is not due
C29_Witness ==
    /\ last.op = "check_timers" /\ Len(last.ran) = 1
    /\ Cardinality(DOMAIN timers) = 2
    /\ last.ran[1].prev # NULL
    /\ timers[last.ran[1].name].interval = 2
    /\ last.ran[1].at - last.ran[1].prev = 2
    /\ timers[last.ran[1].name].last_run = last.ran[1].done

\* a statement of the cycle has just failed
StatementFailed == last.op = "timeout" /\ last.raised /\ last.statement # 0

\* C30 as stated: when a statement of the cycle fails, the table is left with
\* every statement executed before it in the cycle applied (nothing is rolled
\* back), nothing is published and run is left.
C30_FailureKeepsAllApplied ==
    [][ StatementFailed'
        => /\ \E pos \in Positions(10) :
                 LET T == Reads(now, pos, 10)
                     G == [i \in 1..8 |-> T[i + 1]]
                 IN /\ G[last'.statement] = now'
                    /\ table' = AppliedBefore(table, conf, G, last'.statement)
           /\ last'.published = << >>
           /\ pc' = "stopped"
      ]_vars

\* C30, amended: when a statement of the cycle fails, the table is left as
\* the last `with` block completed before it left it: what the blocks
\* completed earlier in the cycle did remains, what the statements of the
\* failing block did is rolled back; nothing is published, and run is left
\* with the manifest timer removed.
C30_FailureKeepsCommittedBlocks ==
    [][ StatementFailed'
        => /\ \E pos \in Positions(10) :
                 LET T == Reads(now, pos, 10)
                     G == [i \in 1..8 |-> T[i + 1]]
                     k == last'.statement
                     pruned == prune_cache(table, conf, G[1], G[2])
                     bal == send_to_cooldown(pruned, conf, G[3], G[4], G[5], G[6])
                 IN /\ G[k] = now'
                    /\ table' = IF k <= 2 THEN table
                                ELSE IF k <= 6 THEN pruned
                                ELSE bal.rows
           /\ last'.published = << >> /\ last'.cycle = NoCycle
           /\ pc' = "stopped"
           /\ TIMER \notin DOMAIN timers'
      ]_vars

\* the second select of _send_to_cooldown has failed after update_to_cooldown
\* had put a row in cooldown, which was rolled back, while the row that
\* _prune_cache removed in this cycle stays removed; PI has stopped
C30_Witness ==
    /\ StatementFailed /\ pc = "stopped"
    /\ last.statement = 5 /\ last.rolledBack
    /\ last.deleted > 0
    /\ \A r \in table : r.cooldown_expiry = NULL
    /\ \E r \in table : r.tasked_time # NULL

RanNames == {last.ran[i].name : i \in 1..Len(last.ran)}

\* C32 as stated: the method of a timer is not called once delete_timer has
\* removed the timer, neither later in the tick in progress nor in a later
\* tick, unless the name was added again.
C32_DeletedTimerNeverRuns ==
    [][ last'.op = "check_timers"
        => /\ RanNames' \subseteq DOMAIN timers
           /\ last'.ranDeleted = {}
      ]_vars

\* C32, amended: a tick calls the methods of timers registered when the tick
\* began and of no others, so a timer deleted before a tick is not called in
\* it unless the name was added again; a timer deleted by another timer's
\* method during a tick is still called in that tick when it is due at its
\* turn, and is left out of self.timers at the end of the tick.
C32_DeletedTimerRunsOnlyInSnapshot ==
    [][ last'.op = "check_timers"
        => /\ RanNames' \subseteq DOMAIN timers
           /\ DOMAIN timers' \subseteq DOMAIN timers
           /\ \A n \in DOMAIN timers :
                 timers[n].last_run + timers[n].interval <= now => n \in RanNames'
           /\ last'.ranDeleted \subseteq (RanNames' \ DOMAIN timers')
      ]_vars

\* a tick has called the methods of both timers, the first of which deleted
\* the second before its turn: the second was called all the same and is no
\* longer registered
C32_Witness ==
    /\ last.op = "check_timers" /\ Len(last.ran) = 2
    /\ last.ranDeleted = {last.ran[2].name}
    /\ DOMAIN timers = {last.ran[1].name}
    /\ last.ran[1].name # last.ran[2].name

\* C33: with phones that all stay active, manifest_size >= 1 and the cycle
\* firing again and again, every phone is eventually in a manifest, that is,
\* its row is eventually among those update_to_tasked marks.  Stated for the
\* first phone, the phones being interchangeable.
C33_EveryPhoneEventuallyPublished ==
    \A ph \in {PhoneNames[1]} :
        <>(\E r \in RowsOf(table, ph) : r.tasked_time # NULL)

====
